---- MODULE Spec2Model ----
(***************************************************************************)
(* Model of spec-test/src/error.rs: the position-aware Error carrier, its  *)
(* constructor, the three stage-error conversions, the file annotation,    *)
(* chaining through the public prev_error field, and the Display / Debug   *)
(* rendering.                                                              *)
(*                                                                         *)
(* An Option<T> is a sequence of length at most one: None == <<>> and      *)
(* Some(x) == <<x>>.  A Box<Error> that owns its predecessor is a record   *)
(* whose prev_error field nests the predecessor, so ownership is exclusive *)
(* and the chain is acyclic by construction.  A &str / PathBuf is a        *)
(* sequence of one-character strings (its length is its byte length).      *)
(* Rendered text is a sequence of pieces, one per write_str the formatter  *)
(* receives; each piece carries its text and the segment of fmt that       *)
(* emitted it.                                                             *)
(***************************************************************************)
EXTENDS Integers, Sequences, FiniteSets, TLC

VARIABLES errors, last

vars == <<errors, last>>

(* ------------------------------ bounds --------------------------------- *)

\* Number of Error objects (chained predecessors included) alive at once.
MaxErrors == 2

\* Largest byte offset handed to the constructor or reported by a stage.
MaxPos == 1

\* Largest number of pieces a limited sink accepts before it reports fmt::Error.
MaxCap == 2

(* ------------------------------ Option --------------------------------- *)

None == <<>>

Some(x) == <<x>>

IsSome(o) == o # <<>>

Unwrap(o) == o[1]

(* ------------------------- input domains ------------------------------- *)

\* Source texts being processed: the empty text, and a text of two lines.
Sources == { <<>>, <<"a", "\n", "b">> }

\* File paths; the second contains a character that Debug escapes.
Paths == { <<"m", ".", "w">>, <<"q", "\"">> }

Slots == {1, 2}

\* Errors of the lexer, the parser and the transformer: each exposes the
\* source text it was processing and the byte offset of the fault.
StageErrors == [source : Sources, offset : 0..MaxPos, what : {"fault"}]

LexErrors == StageErrors

ParseErrors == StageErrors

TransformErrors == StageErrors

StageSource(err) == err.source

StageOffset(err) == err.offset

StageDisplay(err) == err.what

\* Token: the offending token of Unexpected, with its Display text.
Tokens == {"LParen"}

TokenDisplay(token) == CASE token = "LParen" -> "paren '('"

\* std error payloads, with their Display text.
Utf8Errors == {"InvalidUtf8"}

Utf8Display(err) == CASE err = "InvalidUtf8" -> "invalid utf-8 sequence"

ParseIntErrors == {"InvalidDigit"}

ParseIntDisplay(err) == CASE err = "InvalidDigit" -> "invalid digit found in string"

ParseFloatErrors == {"Invalid"}

ParseFloatDisplay(err) == CASE err = "Invalid" -> "invalid float literal"

(* --------------------------- ParseKind --------------------------------- *)

Unexpected(expected, token) ==
    [variant |-> "Unexpected", expected |-> expected, token |-> token]

EndOfFile(expected) == [variant |-> "EndOfFile", expected |-> expected]

Utf8Error(err) == [variant |-> "Utf8Error", err |-> err]

InvalidStringLiteral(lit, reason) ==
    [variant |-> "InvalidStringLiteral", lit |-> lit, reason |-> reason]

InvalidInt(ty, err) == [variant |-> "InvalidInt", ty |-> ty, err |-> err]

TooSmallInt(ty, digits) == [variant |-> "TooSmallInt", ty |-> ty, digits |-> digits]

InvalidFloat(ty, err) == [variant |-> "InvalidFloat", ty |-> ty, err |-> err]

InvalidHexFloat(ty) == [variant |-> "InvalidHexFloat", ty |-> ty]

Lex(err) == [variant |-> "Lex", err |-> err]

ParseWat(err) == [variant |-> "ParseWat", err |-> err]

Wat2Wasm(err) == [variant |-> "Wat2Wasm", err |-> err]

\* The classifications a stage hands to the constructor directly, one payload each.
LiteralKinds ==
    { Unexpected("identifier", None) }
    \cup { Unexpected("identifier", Some(t)) : t \in Tokens }
    \cup { EndOfFile("right paren") }
    \cup { Utf8Error(e) : e \in Utf8Errors }
    \cup { InvalidStringLiteral("\\z", "unknown escape") }
    \cup { InvalidInt("i32", e) : e \in ParseIntErrors }
    \cup { TooSmallInt("i32", 9) }
    \cup { InvalidFloat("f32", e) : e \in ParseFloatErrors }
    \cup { InvalidHexFloat("f64") }

ErrorKind_Parse(kind) == [tag |-> "Parse", kind |-> kind]

\* The faults of one pipeline run, as the stages report them to the
\* constructor: inside the text, at its end, and past the end of an empty text.
Faults ==
    { [kind |-> Unexpected("identifier", Some("LParen")),
       source |-> <<"a", "\n", "b">>, pos |-> 1],
      [kind |-> EndOfFile("right paren"),
       source |-> <<"a", "\n", "b">>, pos |-> 3],
      [kind |-> InvalidInt("i32", "InvalidDigit"),
       source |-> <<>>, pos |-> 1] }

\* The stage errors of one pipeline run: at the start of the text, and at the
\* end of an empty text.
StageFaults ==
    { [source |-> <<"a", "\n", "b">>, offset |-> 0, what |-> "fault"],
      [source |-> <<>>, offset |-> 0, what |-> "fault"] }

(* ----------------------------- Error ----------------------------------- *)

\* Variant of parse_error that clamps the offset to the end of the source.
parse_error_clamped(kind, source, pos) ==
    [ pos        |-> IF pos > Len(source) THEN Len(source) ELSE pos,
      source     |-> source,
      kind       |-> ErrorKind_Parse(kind),
      prev_error |-> None,
      file       |-> None ]

parse_error(kind, source, pos) ==
    [ pos        |-> pos,
      source     |-> source,
      kind       |-> ErrorKind_Parse(kind),
      prev_error |-> None,
      file       |-> None ]

\* Variant of set_file that keeps a path attached earlier.
set_file_keep_first(self, p) ==
    IF IsSome(self.file) THEN self ELSE [self EXCEPT !.file = Some(p)]

set_file(self, p) == [self EXCEPT !.file = Some(p)]

\* Variant of the chaining that also moves the Error to the predecessor's offset.
set_prev_error_inherit_pos(self, prev) ==
    [self EXCEPT !.prev_error = Some(prev), !.pos = prev.pos]

\* self.prev_error = Some(prev): assignment to the public field.
set_prev_error(self, prev) == [self EXCEPT !.prev_error = Some(prev)]

\* ParseKind::$kind(*err) for the $kind a conversion is instantiated with.
StageKind(kind, err) ==
    CASE kind = "Lex" -> Lex(err)
      [] kind = "ParseWat" -> ParseWat(err)
      [] kind = "Wat2Wasm" -> Wat2Wasm(err)

\* Variant of the conversion that reports the start of the source.
parse_error_from_no_offset(kind, err) ==
    parse_error(StageKind(kind, err), StageSource(err), 0)

\* parse_error_from!($from, $kind): the body of From<Box<$from>>::from.
parse_error_from(kind, err) ==
    LET source == StageSource(err)
        offset == StageOffset(err)
    IN  parse_error(StageKind(kind, err), source, offset)

from_lex_error(err) == parse_error_from("Lex", err)

from_parse_error(err) == parse_error_from("ParseWat", err)

from_transform_error(err) == parse_error_from("Wat2Wasm", err)

RECURSIVE ChainLen(_)
ChainLen(e) == IF IsSome(e.prev_error) THEN 1 + ChainLen(Unwrap(e.prev_error)) ELSE 1

\* Error objects alive: every slot's Error and all its chained predecessors.
Alive ==
    LET n(i) == IF IsSome(errors[i]) THEN ChainLen(Unwrap(errors[i])) ELSE 0
    IN  n(1) + n(2)

(* ---------------------------- Formatter -------------------------------- *)

\* A formatter over a sink.  A limited sink accepts `left` more pieces and then
\* reports fmt::Error; a String (to_string) is unlimited and never fails.
\* status "ok": every write so far succeeded; "err": a write returned
\* Err(fmt::Error), which `?` propagates; "panic": the rendering was aborted.
Formatter(limited, cap) ==
    [out |-> <<>>, limited |-> limited, left |-> cap, status |-> "ok"]

Piece(seg, text) == [seg |-> seg, text |-> text]

\* One write_str of `text`, emitted by segment `seg` of fmt.  After a failed
\* write the `?` has returned, so nothing more is written.
write(f, seg, text) ==
    IF f.status # "ok" THEN f
    ELSE IF f.limited /\ f.left = 0 THEN [f EXCEPT !.status = "err"]
    ELSE [f EXCEPT !.out = Append(@, Piece(seg, text)),
                   !.left = IF f.limited THEN @ - 1 ELSE @]

\* write!(f, ...) with the literal and argument pieces of `texts`, in order.
RECURSIVE write_all(_, _, _)
write_all(f, seg, texts) ==
    IF texts = <<>> THEN f
    ELSE write_all(write(f, seg, Head(texts)), seg, Tail(texts))

\* The characters of a text, joined into one string.
RECURSIVE Text(_)
Text(chars) == IF chars = <<>> THEN "" ELSE Head(chars) \o Text(Tail(chars))

\* <Path as Debug>: the path in double quotes, with quotes and backslashes escaped.
EscapeDebug(c) ==
    IF c = "\"" THEN "\\\"" ELSE IF c = "\\" THEN "\\\\" ELSE c

PathDebug(path) ==
    "\"" \o Text([k \in 1..Len(path) |-> EscapeDebug(path[k])]) \o "\""

\* Line and column (both from 1) of byte offset pos, in one pass over source[..pos].
RECURSIVE LineCol(_, _, _, _, _)
LineCol(source, pos, k, line, col) ==
    IF k > pos THEN [line |-> line, col |-> col]
    ELSE IF source[k] = "\n" THEN LineCol(source, pos, k + 1, line + 1, 1)
    ELSE LineCol(source, pos, k + 1, line, col + 1)

\* The text of the line that holds pos, from the start of that line to pos.
RECURSIVE LineStart(_, _)
LineStart(source, k) ==
    IF k = 0 THEN 0 ELSE IF source[k] = "\n" THEN k ELSE LineStart(source, k - 1)

\* describe_position(f, source, pos): the position description.  An offset
\* past the end of the source is a contract violation, not an fmt::Error.
describe_position(f, source, pos) ==
    IF f.status # "ok" THEN f
    ELSE IF pos > Len(source) THEN [f EXCEPT !.status = "panic"]
    ELSE LET lc == LineCol(source, pos, 1, 1, 1)
             from == LineStart(source, pos)
         IN  write_all(f, "position",
                 << " at byte offset ", ToString(pos),
                    " (line ", ToString(lc.line), ", column ", ToString(lc.col), ")\n\n",
                    Text(SubSeq(source, from + 1, pos)) >>)

Separator == "\n\nabove error may be caused by below previous error: "

\* The arm Unexpected { expected, token: None }.
fmt_unexpected(f, expected) ==
    write_all(f, "message", << "unexpected token while ", expected, " is expected" >>)

\* Variant of the arm with the two arguments of write! exchanged.
fmt_unexpected_token_swapped(f, expected, token) ==
    write_all(f, "message",
        << "unexpected token ", expected, " while ", TokenDisplay(token), " is expected" >>)

\* The arm Unexpected { expected, token: Some(token) }.
fmt_unexpected_token(f, expected, token) ==
    write_all(f, "message",
        << "unexpected token ", TokenDisplay(token), " while ", expected, " is expected" >>)

\* The match on ParseKind: the classification message.
fmt_kind(f, kind) ==
    CASE kind.variant = "Lex" ->
           write_all(f, "message", << "lexer error: ", StageDisplay(kind.err) >>)
      [] kind.variant = "ParseWat" ->
           write_all(f, "message",
               << "parse error on parsing WAT module: ", StageDisplay(kind.err) >>)
      [] kind.variant = "Wat2Wasm" ->
           write_all(f, "message",
               << "could not transform from WAT to WASM: ", StageDisplay(kind.err) >>)
      [] kind.variant = "Unexpected" /\ kind.token = None ->
           fmt_unexpected(f, kind.expected)
      [] kind.variant = "Unexpected" /\ IsSome(kind.token) ->
           fmt_unexpected_token(f, kind.expected, Unwrap(kind.token))
      [] kind.variant = "EndOfFile" ->
           write_all(f, "message",
               << "unxpected EOF while ", kind.expected, " is expected" >>)
      [] kind.variant = "Utf8Error" ->
           write_all(f, "message",
               << "cannot parse text as UTF-8: ", Utf8Display(kind.err) >>)
      [] kind.variant = "InvalidStringLiteral" ->
           write_all(f, "message",
               << "invalid string literal '", kind.lit, "': ", kind.reason >>)
      [] kind.variant = "InvalidInt" ->
           write_all(f, "message",
               << "invalid int literal for ", kind.ty, ": ", ParseIntDisplay(kind.err) >>)
      [] kind.variant = "TooSmallInt" ->
           write_all(f, "message",
               << "-", ToString(kind.digits), " is too small value for ", kind.ty >>)
      [] kind.variant = "InvalidFloat" ->
           write_all(f, "message",
               << "invalid float number literal for ", kind.ty, ": ",
                  ParseFloatDisplay(kind.err) >>)
      [] kind.variant = "InvalidHexFloat" ->
           write_all(f, "message",
               << "invalid hex float number literal for ", kind.ty >>)

\* Variant of the own part that writes the file after the position description.
fmt_own_file_last(self, f) ==
    LET f1 == CASE self.kind.tag = "Parse" -> fmt_kind(f, self.kind.kind)
        doing == CASE self.kind.tag = "Parse" -> "parsing"
        f2 == write_all(f1, "stage", << " while ", doing >>)
        f3 == describe_position(f2, self.source, self.pos)
    IN  IF IsSome(self.file)
          THEN write_all(f3, "file", << " '", PathDebug(Unwrap(self.file)), "'" >>)
          ELSE f3

\* Variant of the own part that writes the Option<PathBuf> itself with {:?}.
fmt_own_file_option(self, f) ==
    LET f1 == CASE self.kind.tag = "Parse" -> fmt_kind(f, self.kind.kind)
        doing == CASE self.kind.tag = "Parse" -> "parsing"
        f2 == write_all(f1, "stage", << " while ", doing >>)
        f3 == write_all(f2, "file",
                  << " '",
                     IF IsSome(self.file)
                       THEN "Some(" \o PathDebug(Unwrap(self.file)) \o ")"
                       ELSE "None",
                     "'" >>)
    IN  describe_position(f3, self.source, self.pos)

\* <Error as fmt::Display>::fmt up to describe_position: the Error's own part.
fmt_own(self, f) ==
    LET f1 == CASE self.kind.tag = "Parse" -> fmt_kind(f, self.kind.kind)
        doing == CASE self.kind.tag = "Parse" -> "parsing"
        f2 == write_all(f1, "stage", << " while ", doing >>)
        f3 == IF IsSome(self.file)
                THEN write_all(f2, "file", << " '", PathDebug(Unwrap(self.file)), "'" >>)
                ELSE f2
    IN  describe_position(f3, self.source, self.pos)

\* Variant of fmt that renders the predecessor right after the own part.
RECURSIVE display_fmt_no_separator(_, _)
display_fmt_no_separator(self, f) ==
    LET f4 == fmt_own(self, f)
    IN  IF IsSome(self.prev_error)
          THEN display_fmt_no_separator(Unwrap(self.prev_error), f4)
          ELSE f4

\* Variant of fmt that never renders the chained predecessor.
display_fmt_drop_prev(self, f) == fmt_own(self, f)

\* <Error as fmt::Display>::fmt: the own part, then the chained predecessor.
RECURSIVE display_fmt(_, _)
display_fmt(self, f) ==
    LET f4 == fmt_own(self, f)
    IN  IF IsSome(self.prev_error)
          THEN display_fmt(Unwrap(self.prev_error), write(f4, "separator", Separator))
          ELSE f4

\* Variant of Debug as #[derive(Debug)] would write it.
debug_fmt_derived(self, f) ==
    write_all(f, "message", << "Error { pos: ", ToString(self.pos), ", .. }" >>)

\* <Error as fmt::Debug>::fmt.
debug_fmt(self, f) == display_fmt(self, f)

(* --------------------------- state machine ----------------------------- *)

Init ==
    /\ errors = [i \in Slots |-> None]
    /\ last = [op |-> "new"]

\* An Error is terminal once printed: fmt borrows it immutably, so whatever could
\* follow a rendering could equally have preceded it, and the run ends there.
Printed == last.op \in {"display", "debug"}

ParseError(i, kind, source, pos) ==
    /\ ~Printed
    /\ errors[i] = None
    /\ Alive < MaxErrors
    /\ errors' = [errors EXCEPT ![i] = Some(parse_error(kind, source, pos))]
    /\ last' = [op |-> "parse_error", slot |-> i, kind |-> kind,
                source |-> source, pos |-> pos]

FromLexError(i, err) ==
    /\ ~Printed
    /\ errors[i] = None
    /\ Alive < MaxErrors
    /\ errors' = [errors EXCEPT ![i] = Some(from_lex_error(err))]
    /\ last' = [op |-> "from", variant |-> "Lex", slot |-> i, err |-> err]

FromParseError(i, err) ==
    /\ ~Printed
    /\ errors[i] = None
    /\ Alive < MaxErrors
    /\ errors' = [errors EXCEPT ![i] = Some(from_parse_error(err))]
    /\ last' = [op |-> "from", variant |-> "ParseWat", slot |-> i, err |-> err]

FromTransformError(i, err) ==
    /\ ~Printed
    /\ errors[i] = None
    /\ Alive < MaxErrors
    /\ errors' = [errors EXCEPT ![i] = Some(from_transform_error(err))]
    /\ last' = [op |-> "from", variant |-> "Wat2Wasm", slot |-> i, err |-> err]

SetFile(i, p) ==
    /\ ~Printed
    /\ IsSome(errors[i])
    /\ errors' = [errors EXCEPT ![i] = Some(set_file(Unwrap(errors[i]), p))]
    /\ last' = [op |-> "set_file", slot |-> i, path |-> p]

\* errors[i].prev_error = Some(errors[j]): the Box in slot j is moved into the
\* Error in slot i; a predecessor slot i already owned is dropped.
Chain(i, j) ==
    /\ ~Printed
    /\ i # j
    /\ IsSome(errors[i])
    /\ IsSome(errors[j])
    /\ errors' = [errors EXCEPT
                    ![i] = Some(set_prev_error(Unwrap(errors[i]), Unwrap(errors[j]))),
                    ![j] = None]
    /\ last' = [op |-> "chain", slot |-> i, from |-> j]

\* format!("{}", errors[i]) / format!("{:?}", errors[i]) into a sink that is a String
\* (limited = FALSE) or accepts only cap pieces.
Display(i, limited, cap) ==
    /\ ~Printed
    /\ IsSome(errors[i])
    /\ last' = [op |-> "display", slot |-> i, limited |-> limited, cap |-> cap,
                f |-> display_fmt(Unwrap(errors[i]), Formatter(limited, cap))]
    /\ UNCHANGED errors

Debug(i, limited, cap) ==
    /\ ~Printed
    /\ IsSome(errors[i])
    /\ last' = [op |-> "debug", slot |-> i, limited |-> limited, cap |-> cap,
                f |-> debug_fmt(Unwrap(errors[i]), Formatter(limited, cap))]
    /\ UNCHANGED errors

\* The sinks a rendering is given: a String, or a sink of capacity 0..MaxCap.
Sinks == { <<FALSE, 0>> } \cup { <<TRUE, c>> : c \in 0..MaxCap }

\* A pipeline run: its faults are constructed or converted, annotated, chained
\* and printed.
Next ==
    \/ \E i \in Slots, c \in Faults : ParseError(i, c.kind, c.source, c.pos)
    \/ \E i \in Slots, err \in StageFaults : FromLexError(i, err)
    \/ \E i \in Slots, err \in StageFaults : FromParseError(i, err)
    \/ \E i \in Slots, err \in StageFaults : FromTransformError(i, err)
    \/ \E i \in Slots, p \in Paths : SetFile(i, p)
    \/ \E i \in Slots, j \in Slots : Chain(i, j)
    \/ \E i \in Slots, s \in Sinks : Display(i, s[1], s[2])
    \/ \E i \in Slots, s \in Sinks : Debug(i, s[1], s[2])

Spec == Init /\ [][Next]_vars

\* The caller holds no Error.
NoError == \A i \in Slots : errors[i] = None

\* One Error at a time, of every classification, over every source and every
\* offset up to MaxPos: constructed or converted, annotated and printed.
NextKinds ==
    \/ \E i \in Slots, kind \in LiteralKinds, source \in Sources, pos \in 0..MaxPos :
          NoError /\ ParseError(i, kind, source, pos)
    \/ \E i \in Slots, err \in LexErrors : NoError /\ FromLexError(i, err)
    \/ \E i \in Slots, err \in ParseErrors : NoError /\ FromParseError(i, err)
    \/ \E i \in Slots, err \in TransformErrors : NoError /\ FromTransformError(i, err)
    \/ \E i \in Slots, p \in Paths : SetFile(i, p)
    \/ \E i \in Slots, s \in Sinks : Display(i, s[1], s[2])
    \/ \E i \in Slots, s \in Sinks : Debug(i, s[1], s[2])

SpecKinds == Init /\ [][NextKinds]_vars

(* ------------------------------ helpers -------------------------------- *)

\* The Error the last operation acted on.
Target == Unwrap(errors[last.slot])

\* The last operation was a rendering that returned Ok(()).
Rendered == Printed /\ last.f.status = "ok"

\* Index of the first separator piece of out, or Len(out) + 1.
RECURSIVE FirstSeparator(_, _)
FirstSeparator(out, k) ==
    IF k > Len(out) THEN k
    ELSE IF out[k].seg = "separator" THEN k ELSE FirstSeparator(out, k + 1)

\* The pieces of the rendered Error itself: those before the first separator.
OwnPart(out) == SubSeq(out, 1, FirstSeparator(out, 1) - 1)

\* The pieces after the first separator: the rendering of the predecessor.
PrevPart(out) == SubSeq(out, FirstSeparator(out, 1) + 1, Len(out))

\* The text of the pieces of segment seg of part, joined.
SegText(part, seg) == Text([k \in 1..Len(SelectSeq(part, LAMBDA p : p.seg = seg))
                               |-> SelectSeq(part, LAMBDA p : p.seg = seg)[k].text])

Rank(seg) ==
    CASE seg = "message" -> 1 [] seg = "stage" -> 2 [] seg = "file" -> 3
      [] seg = "position" -> 4 [] seg = "separator" -> 5

\* What a complete rendering to a String writes.
ToStringOut(e) == display_fmt(e, Formatter(FALSE, 0)).out

(* ------------------------------- claims -------------------------------- *)

\* C1: each stage-error conversion (LexError -> Lex, ParseError -> ParseWat,
\* TransformError -> Wat2Wasm) yields an Error whose pos is the stage error's
\* offset(), whose source is its source(), whose kind is Parse of the matching
\* variant wrapping the stage error unchanged, with no prev_error and no file.
C1_Conversion ==
    last.op = "from" =>
        /\ Target.pos = StageOffset(last.err)
        /\ Target.source = StageSource(last.err)
        /\ Target.kind = [tag |-> "Parse",
                          kind |-> [variant |-> last.variant, err |-> last.err]]
        /\ Target.prev_error = None
        /\ Target.file = None

C1_Witness ==
    /\ last.op = "from"
    /\ last.variant = "Wat2Wasm"
    /\ last.err.offset = MaxPos
    /\ last.err.source # <<>>
    /\ Target.pos = MaxPos

\* C5: Error::parse_error succeeds for every kind, source and pos (an offset
\* past the end included) and returns an Error whose kind is Parse(kind), whose
\* source and pos are the arguments, and whose prev_error and file are absent.
C5_Construct ==
    last.op = "parse_error" =>
        /\ IsSome(errors[last.slot])
        /\ Target = [pos |-> last.pos, source |-> last.source,
                     kind |-> [tag |-> "Parse", kind |-> last.kind],
                     prev_error |-> <<>>, file |-> <<>>]

C5_Witness ==
    /\ last.op = "parse_error"
    /\ last.pos > Len(last.source)
    /\ last.kind.variant = "TooSmallInt"
    /\ Target.pos = last.pos

\* C6 (as stated): in every reachable state every Error, chained predecessors
\* included, has pos <= length of its source.
RECURSIVE InBounds(_)
InBounds(e) ==
    /\ e.pos <= Len(e.source)
    /\ IsSome(e.prev_error) => InBounds(Unwrap(e.prev_error))

C6_AllInBounds ==
    \A i \in Slots : IsSome(errors[i]) => InBounds(Unwrap(errors[i]))

\* The last operation was a construction or conversion given an offset past
\* the end of the source it was given.
GivenOutOfBounds ==
    \/ last.op = "parse_error" /\ last.pos > Len(last.source)
    \/ last.op = "from" /\ StageOffset(last.err) > Len(StageSource(last.err))

\* C6 (amended): nothing checks pos against source, but every operation
\* preserves the bound: if every Error is in bounds, then after any operation
\* other than a construction or conversion given an out-of-range offset, every
\* Error (chained predecessors included) is still in bounds.
C6_BoundPreserved ==
    [][ (C6_AllInBounds /\ ~GivenOutOfBounds') => C6_AllInBounds' ]_vars

C6_Witness ==
    /\ last.op = "chain"
    /\ C6_AllInBounds
    /\ IsSome(Target.prev_error)
    /\ IsSome(Target.file)
    /\ Target.pos = Len(Target.source)
    /\ Unwrap(Target.prev_error).pos < Len(Unwrap(Target.prev_error).source)

\* C10: set_file(P) sets the Error's own file to P, overwriting any path
\* attached before, and leaves pos, source, kind and prev_error (so also the
\* file of every chained predecessor) unchanged.
C10_SetFileFrame ==
    [][ last'.op = "set_file" =>
          LET old == Unwrap(errors[last'.slot])
              new == Unwrap(errors'[last'.slot])
          IN  /\ new.file = <<last'.path>>
              /\ new.pos = old.pos
              /\ new.source = old.source
              /\ new.kind = old.kind
              /\ new.prev_error = old.prev_error ]_vars

C10_Witness ==
    /\ last.op = "set_file"
    /\ Target.file = Some(last.path)
    /\ IsSome(Target.prev_error)
    /\ IsSome(Unwrap(Target.prev_error).file)
    /\ Unwrap(Target.prev_error).file # Target.file

\* C2: a rendering emits, for the Error and then for each predecessor after a
\* separator, the classification message, then " while parsing", then the file
\* segment (only if a file is attached), then the position description; no
\* segment is emitted before one that precedes it in this order, also when the
\* sink fails part-way.
RECURSIVE InOrder(_, _, _)
InOrder(e, out, complete) ==
    LET own == OwnPart(out)
        has(seg) == \E m \in 1..Len(own) : own[m].seg = seg
    IN  /\ \A m \in 1..(Len(own) - 1) : Rank(own[m].seg) <= Rank(own[m + 1].seg)
        /\ has("file") => IsSome(e.file)
        /\ complete =>
              /\ has("message") /\ own[1].seg = "message"
              /\ SegText(own, "stage") = " while parsing"
              /\ IsSome(e.file) => has("file")
              /\ has("position")
              /\ IsSome(e.prev_error) => Len(own) < Len(out)
        /\ Len(own) < Len(out) =>
              /\ IsSome(e.prev_error)
              /\ InOrder(Unwrap(e.prev_error), PrevPart(out), complete)

C2_SegmentOrder ==
    Printed => InOrder(Target, last.f.out, last.f.status = "ok")

C2_Witness ==
    /\ Rendered
    /\ last.op = "display"
    /\ IsSome(Target.file)
    /\ IsSome(Target.prev_error)
    /\ Unwrap(Target.prev_error).file = None

\* C3: a completed rendering of an Error with a predecessor contains the
\* separator text followed by the full rendering of the predecessor; a
\* rendering of an Error without predecessor contains no separator text.
C3_Chaining ==
    Rendered =>
        LET out == last.f.out
        IN  IF IsSome(Target.prev_error)
              THEN \E k \in 1..Len(out) :
                       /\ out[k].text = Separator
                       /\ SubSeq(out, k + 1, Len(out))
                              = ToStringOut(Unwrap(Target.prev_error))
              ELSE \A k \in 1..Len(out) : out[k].text # Separator

C3_Witness ==
    /\ Rendered
    /\ IsSome(Target.prev_error)
    /\ Target.kind.kind.variant = "ParseWat"
    /\ Unwrap(Target.prev_error).kind.kind.variant = "Lex"
    /\ Unwrap(Target.prev_error).source # Target.source
    /\ IsSome(Unwrap(Target.prev_error).file)

\* C4 (as stated): a completed rendering of an Error without file contains no
\* path segment, and with path P attached it contains P's Debug form exactly
\* once, anywhere in the rendering.
C4_FileSegmentWhole ==
    Rendered =>
        LET out == last.f.out
        IN  IF Target.file = None
              THEN \A k \in 1..Len(out) : out[k].seg # "file"
              ELSE Cardinality({ k \in 1..Len(out) :
                                   out[k].text = PathDebug(Unwrap(Target.file)) }) = 1

\* C4 (amended): in the Error's own part of a completed rendering (the text
\* before the first separator) there is no path segment when no file is
\* attached; with path P attached, P's Debug form appears there exactly once,
\* after " while parsing" and before the position description.  A chained
\* predecessor's file is rendered in the predecessor's part.
C4_FileSegment ==
    Rendered =>
        LET own == OwnPart(last.f.out)
            at == { k \in 1..Len(own) :
                      \E p \in Paths : own[k].text = PathDebug(p) }
        IN  IF Target.file = None
              THEN /\ at = {}
                   /\ \A k \in 1..Len(own) : own[k].seg # "file"
              ELSE /\ Cardinality(at) = 1
                   /\ \A k \in at :
                        /\ own[k].text = PathDebug(Unwrap(Target.file))
                        /\ \A m \in 1..(k - 1) : own[m].seg \in {"message", "stage", "file"}
                        /\ \E m \in 1..(k - 1) : own[m].seg = "stage"
                        /\ \A m \in (k + 1)..Len(own) : own[m].seg \in {"file", "position"}
                        /\ \E m \in (k + 1)..Len(own) : own[m].seg = "position"
                   /\ SegText(own, "message") \o SegText(own, "stage")
                        \o " '" \o PathDebug(Unwrap(Target.file)) \o "'"
                        \o SegText(own, "position")
                      = Text([k \in 1..Len(own) |-> own[k].text])

C4_Witness ==
    /\ Rendered
    /\ Target.file = Some(<<"q", "\"">>)
    /\ IsSome(Target.prev_error)
    /\ Unwrap(Target.prev_error).file = Some(<<"m", ".", "w">>)

\* C7: Debug rendering and Display rendering of the same Error into the same
\* sink give the same pieces in the same order and the same result.
C7_DebugIsDisplay ==
    last.op = "debug" =>
        LET d == display_fmt(Target, Formatter(last.limited, last.cap))
        IN  /\ last.f.out = d.out
            /\ last.f.status = d.status

C7_Witness ==
    /\ last.op = "debug"
    /\ last.f.status = "ok"
    /\ IsSome(Target.file)
    /\ IsSome(Target.prev_error)

\* C8: the message of Unexpected is "unexpected token {token} while {expected}
\* is expected" when a token is present, the token before the expected
\* description, and "unexpected token while {expected} is expected" without it.
C8_Unexpected ==
    (Rendered /\ Target.kind.kind.variant = "Unexpected") =>
        LET kind == Target.kind.kind
            message == SegText(OwnPart(last.f.out), "message")
        IN  IF IsSome(kind.token)
              THEN message = "unexpected token " \o TokenDisplay(Unwrap(kind.token))
                               \o " while " \o kind.expected \o " is expected"
              ELSE message = "unexpected token while " \o kind.expected \o " is expected"

C8_Witness ==
    /\ Rendered
    /\ Target.kind.kind.variant = "Unexpected"
    /\ IsSome(Target.kind.kind.token)
    /\ SegText(OwnPart(last.f.out), "message")
          = "unexpected token paren '(' while identifier is expected"

\* C9: a completed rendering of a chain of n Errors is the own rendering of
\* each element, outermost first, joined by separators: n classification
\* messages, n position descriptions, n - 1 separators, nothing dropped.
RECURSIVE ChainOut(_)
ChainOut(e) ==
    ToStringOut([e EXCEPT !.prev_error = None])
      \o (IF IsSome(e.prev_error)
            THEN <<Piece("separator", Separator)>> \o ChainOut(Unwrap(e.prev_error))
            ELSE <<>>)

\* Number of maximal runs of pieces of segment seg in out.
Runs(out, seg) ==
    Cardinality({ k \in 1..Len(out) :
                    out[k].seg = seg /\ (k = 1 \/ out[k - 1].seg # seg) })

C9_WholeChain ==
    Rendered =>
        LET out == last.f.out
            n == ChainLen(Target)
        IN  /\ out = ChainOut(Target)
            /\ Runs(out, "message") = n
            /\ Runs(out, "position") = n
            /\ Runs(out, "separator") = n - 1
            /\ Cardinality({ k \in 1..Len(out) : out[k].text = Separator }) = n - 1

C9_Witness ==
    /\ Rendered
    /\ ChainLen(Target) = MaxErrors
    /\ Runs(last.f.out, "separator") = MaxErrors - 1
    /\ Target.kind.kind.variant = "EndOfFile"

====
